---- MODULE Spec2Model ----
(***************************************************************************)
(* Model of kicad_unified_bom_xyrs.py: the netlist components are seeded   *)
(* into the dictionary db, the board modules are merged into it, the       *)
(* dictionary is pruned and the rows are written through csv.DictWriter.   *)
(*                                                                         *)
(* Python values are modelled as records of one shape, [t, s, n, d]: t is  *)
(* the Python type, s the text of a str, n/d the reduced fraction of an    *)
(* int or float (floats are modelled as exact rationals), so that values   *)
(* of different Python types can be compared and are never equal.          *)
(***************************************************************************)
EXTENDS Integers, Sequences, FiniteSets, TLC

(***************************************************************************)
(* Bound of the model: the netlist and the board hold at most MaxRecords    *)
(* records (components and modules) together.                              *)
(***************************************************************************)
MaxRecords == 3

(***************************************************************************)
(* Text: code points, comparison of str, substring test, re.match.         *)
(***************************************************************************)
\* runs of consecutive ASCII characters with the code point of their first
\* character: " ".."!", "+".."Z" without the characters of no use here, and
\* "_", "a".."z", "~"
AsciiRuns == << <<32, " !">>, <<43, "+,-./0123456789:">>, <<61, "=">>,
               <<64, "@ABCDEFGHIJKLMNOPQRSTUVWXYZ">>, <<95, "_">>,
               <<97, "abcdefghijklmnopqrstuvwxyz">>, <<126, "~">> >>

Newline == "\n"

\* ord(c) of a one-character str
Ord(c) ==
    IF c = Newline THEN 10
    ELSE LET r == CHOOSE r \in 1..Len(AsciiRuns) :
                    \E i \in 1..Len(AsciiRuns[r][2]) : SubSeq(AsciiRuns[r][2], i, i) = c
             i == CHOOSE i \in 1..Len(AsciiRuns[r][2]) : SubSeq(AsciiRuns[r][2], i, i) = c
         IN  AsciiRuns[r][1] + i - 1

CharAt(s, i) == SubSeq(s, i, i)

StrTail(s) == SubSeq(s, 2, Len(s))

\* a < b of two str: lexicographic on the code points
RECURSIVE StrLess(_, _)
StrLess(a, b) ==
    IF b = "" THEN FALSE
    ELSE IF a = "" THEN TRUE
    ELSE IF CharAt(a, 1) = CharAt(b, 1) THEN StrLess(StrTail(a), StrTail(b))
    ELSE Ord(CharAt(a, 1)) < Ord(CharAt(b, 1))

\* sub in s
StrIn(sub, s) ==
    \E i \in 1..(Len(s) + 1) :
        /\ i + Len(sub) - 1 <= Len(s)
        /\ SubSeq(s, i, i + Len(sub) - 1) = sub

\* re.match(pat, s) for a pattern of literal characters, "." and ".*":
\* the match starts at the first character of s and may end anywhere;
\* "." matches every character but the newline
RECURSIVE ReMatch(_, _)
ReMatch(pat, s) ==
    IF pat = "" THEN TRUE
    ELSE IF Len(pat) >= 2 /\ SubSeq(pat, 1, 2) = ".*"
    THEN \E k \in 0..Len(s) :
            /\ \A i \in 1..k : CharAt(s, i) # Newline
            /\ ReMatch(SubSeq(pat, 3, Len(pat)), SubSeq(s, k + 1, Len(s)))
    ELSE /\ s # ""
         /\ \/ CharAt(pat, 1) = CharAt(s, 1)
            \/ CharAt(pat, 1) = "." /\ CharAt(s, 1) # Newline
         /\ ReMatch(StrTail(pat), StrTail(s))

\* sorted(S) of a set of str
RECURSIVE SortedSeq(_)
SortedSeq(S) ==
    IF S = {} THEN <<>>
    ELSE LET x == CHOOSE x \in S : TRUE
             rest == SortedSeq(S \ {x})
             k == Cardinality({ i \in 1..Len(rest) : StrLess(rest[i], x) })
         IN  SubSeq(rest, 1, k) \o <<x>> \o SubSeq(rest, k + 1, Len(rest))

(***************************************************************************)
(* Numbers: exact fractions <<n, d>> with d > 0, reduced.                  *)
(***************************************************************************)
Abs(i) == IF i < 0 THEN -i ELSE i

RECURSIVE Gcd(_, _)
Gcd(a, b) == IF b = 0 THEN a ELSE Gcd(b, a % b)

Rat(n, d) ==
    LET g == Gcd(Abs(n), Abs(d))
        sg == IF d < 0 THEN -1 ELSE 1
    IN  <<(sg * n) \div g, (sg * d) \div g>>

RatMul(a, b) == Rat(a[1] * b[1], a[2] * b[2])
RatDiv(a, b) == Rat(a[1] * b[2], a[2] * b[1])
RatSub(a, b) == Rat(a[1] * b[2] - b[1] * a[2], a[2] * b[2])

\* int(x) of a float: truncation towards zero
Trunc(a) == IF a[1] < 0 THEN -(Abs(a[1]) \div a[2]) ELSE a[1] \div a[2]

(***************************************************************************)
(* Python values.                                                          *)
(***************************************************************************)
PyStr(s) == [t |-> "str", s |-> s, n |-> 0, d |-> 1]
PyInt(i) == [t |-> "int", s |-> "", n |-> i, d |-> 1]
PyFloat(a) == [t |-> "float", s |-> "", n |-> a[1], d |-> a[2]]
\* the 1-tuple (x,) of a float
PyTuple1(a) == [t |-> "tuple", s |-> "", n |-> a[1], d |-> a[2]]

\* str(v); only str values reach the call at line 257
StrOf(v) == v.s

\* d[k] = v of a dict
DictSet(dict, k, v) == [x \in DOMAIN dict \cup {k} |-> IF x = k THEN v ELSE dict[x]]

(***************************************************************************)
(* Program constants.                                                      *)
(***************************************************************************)
prune == [footprint |-> <<".*NetTie.*">>, ref |-> <<"TP.*", "MECH.*">>]

MOD_DEFAULT == 0
MOD_CMS == 1
MOD_VIRTUAL == 2

pcbng_columns == <<"Reference", "Value", "Description", "Footprint", "PosX", "PosY",
                   "Rotation", "Side", "MFR", "MPN", "OctopartID", "Datasheet">>

mcfab_columns == <<"Reference", "PosX", "PosY", "Rotation", "Side", "Type", "XSize",
                   "YSize", "Value", "Footprint", "Populate", "DISTPN2">>

(***************************************************************************)
(* Inputs: what the netlist reader and the board loader hand back.         *)
(***************************************************************************)
NoFields == [k \in {} |-> ""]

\* the components a netlist is made of; fields are the component's own
\* named fields, footprint is what getFootprint() returns
ComponentCatalogue == {
    [ref |-> "U1", value |-> "MCU", datasheet |-> "~",
     footprint |-> "Package_SO:SOIC-8", fields |-> [MPN |-> "ABC123"]],
    [ref |-> "C10", value |-> "10u", datasheet |-> "c.pdf",
     footprint |-> "Capacitor_SMD:C_0603",
     fields |-> [DISTPN |-> "399-1234", MPN |-> "CL10", Footprint |-> "C_Default"]],
    [ref |-> "R1", value |-> "10k", datasheet |-> "~",
     footprint |-> "Resistor_SMD:R_0603", fields |-> [Config |-> "B,DNF", MPN |-> "RC0603"]],
    [ref |-> "XTP2", value |-> "PAD", datasheet |-> "",
     footprint |-> "Pads:Pad_1mm", fields |-> [Config |-> "dnf", DISTPN2 |-> "X-77"]],
    [ref |-> "TP3", value |-> "TP", datasheet |-> "",
     footprint |-> "TestPoint:TP_1mm", fields |-> NoFields],
    [ref |-> "MECH1", value |-> "HOLE", datasheet |-> "",
     footprint |-> "Mounting:Hole_3mm", fields |-> NoFields],
    [ref |-> "NT1", value |-> "NT", datasheet |-> "",
     footprint |-> "NetTie:NetTie-2_SMD", fields |-> NoFields] }

\* the values net.gatherLibPartFieldUnion() may return
PartFieldSets == {
    {"Reference", "Value", "Footprint", "Datasheet"},
    {"Reference", "Value", "Alt", "Assembly", "Build", "Config", "DISTPN2"},
    {"Reference", "Value", "Assembly", "Build", "Config", "DISTPN2"} }

\* the modules a board is made of: GetReference(), GetAttributes(),
\* GetCenter(), GetOrientation(), GetFootprintRect(), IsFlipped(), GetFPID()
ModuleCatalogue == {
    [ref |-> "U1", attr |-> MOD_CMS, center |-> <<10000000, 20000000>>,
     orientation |-> 900, rect |-> [width |-> 5000000, height |-> 3000000],
     flipped |-> FALSE, lib |-> "Package_SO", name |-> "SOIC-8"],
    [ref |-> "U1", attr |-> MOD_CMS, center |-> <<2540000, -1270000>>,
     orientation |-> -1805, rect |-> [width |-> 2000000, height |-> 4000000],
     flipped |-> TRUE, lib |-> "Other", name |-> "QFN-16"],
    [ref |-> "U1", attr |-> MOD_VIRTUAL, center |-> <<7000000, 7000000>>,
     orientation |-> 0, rect |-> [width |-> 1000000, height |-> 1000000],
     flipped |-> FALSE, lib |-> "Logo", name |-> "Silk"],
    [ref |-> "C10", attr |-> MOD_DEFAULT, center |-> <<-3000000, 1500000>>,
     orientation |-> 1800, rect |-> [width |-> 1600000, height |-> 800000],
     flipped |-> FALSE, lib |-> "NetTie", name |-> "NetTie-2_THT"],
    [ref |-> "NT1", attr |-> MOD_CMS, center |-> <<500000, 250000>>,
     orientation |-> 2700, rect |-> [width |-> 500000, height |-> 500000],
     flipped |-> TRUE, lib |-> "Custom", name |-> "Bridge"] }

\* the sequences over S of length at most n
SeqsUpTo(S, n) == UNION { [1..k -> S] : k \in 0..n }

\* a netlist holds every reference once
Netlists == { cs \in SeqsUpTo(ComponentCatalogue, MaxRecords) :
                \A i, j \in 1..Len(cs) : cs[i].ref = cs[j].ref => i = j }

\* the boards that go with a netlist of n components
Boards(n) == SeqsUpTo(ModuleCatalogue, MaxRecords - n)

OutputFormats == {"macrofab", "pcbng"}

(***************************************************************************)
(* State.                                                                  *)
(***************************************************************************)
VARIABLES
    components,      \* net.getInterestingComponents()
    partfields,      \* net.gatherLibPartFieldUnion()
    modules,         \* board.GetModules()
    output_format,   \* args.output_format
    metric,          \* args.metric
    pc,              \* position of the script
    columns,         \* the list columns of line 109
    ci,              \* index of the next component of the loop of line 111
    mi,              \* index of the next module of the loop of line 151
    wi,              \* index of the next item of the loop of line 278
    db,              \* the dictionary db: reference -> dict of fields
    err,             \* the [Warn] lines on stderr, each with the index of its module
    out              \* the rows handed to the csv writer, header included

vars == <<components, partfields, modules, output_format, metric,
          pc, columns, ci, mi, wi, db, err, out>>

inputs == <<components, partfields, modules, output_format, metric>>

(***************************************************************************)
(* Lines 97-130: column discovery and seeding.                             *)
(***************************************************************************)
\* c.getField(name): the value of the field, "" when the component has none
getField(c, name) == IF name \in DOMAIN c.fields THEN c.fields[name] ELSE ""

\* net.gatherComponentFieldUnion(components)
compfields == UNION { DOMAIN components[i].fields : i \in 1..Len(components) }

columnset == (compfields \cup partfields) \ {"Reference", "Value", "Description"}

\* columns[7:]
ExtraFields == { columns[i] : i \in 8..Len(columns) }

\* the override of line 128 applied only when columns[7:] holds no Footprint
SeedData_NoOverride(c) ==
    LET extra == ExtraFields
    IN  [k \in {"Reference", "Value", "Datasheet", "Description", "Config", "Footprint"}
                \cup extra |->
            IF k \in extra THEN PyStr(getField(c, k))
            ELSE IF k = "Footprint" THEN PyStr(c.footprint)
            ELSE IF k = "Reference" THEN PyStr(c.ref)
            ELSE IF k = "Value" THEN PyStr(c.value)
            ELSE IF k = "Datasheet" THEN PyStr(c.datasheet)
            ELSE PyStr(getField(c, k))]

\* the dict data of lines 114-128
SeedData(c) ==
    LET extra == ExtraFields
    IN  [k \in {"Reference", "Value", "Datasheet", "Description", "Config", "Footprint"}
                \cup extra |->
            IF k = "Footprint" THEN PyStr(c.footprint)
            ELSE IF k \in extra THEN PyStr(getField(c, k))
            ELSE IF k = "Reference" THEN PyStr(c.ref)
            ELSE IF k = "Value" THEN PyStr(c.value)
            ELSE IF k = "Datasheet" THEN PyStr(c.datasheet)
            ELSE PyStr(getField(c, k))]

Init ==
    /\ components \in Netlists
    /\ partfields \in PartFieldSets
    /\ modules \in Boards(Len(components))
    /\ output_format \in OutputFormats
    /\ metric \in BOOLEAN
    /\ pc = "columns"
    /\ columns = <<>>
    /\ ci = 1
    /\ mi = 1
    /\ wi = 1
    /\ db = [k \in {} |-> NoFields]
    /\ err = {}
    /\ out = <<>>

\* lines 99-109
GatherColumns ==
    /\ pc = "columns"
    /\ columns' = <<"Reference", "Value", "Description">> \o SortedSeq(columnset)
    /\ pc' = "seed"
    /\ UNCHANGED <<inputs, ci, mi, wi, db, err, out>>

\* one iteration of the loop of line 111
SeedComponent ==
    /\ pc = "seed"
    /\ ci <= Len(components)
    /\ db' = DictSet(db, components[ci].ref, SeedData(components[ci]))
    /\ ci' = ci + 1
    /\ UNCHANGED <<inputs, columns, pc, mi, wi, err, out>>

\* lines 138-150: the board is loaded once the components are seeded
LoadBoard ==
    /\ pc = "seed"
    /\ ci > Len(components)
    /\ pc' = "merge"
    /\ UNCHANGED <<inputs, columns, ci, mi, wi, db, err, out>>

(***************************************************************************)
(* Lines 151-213: the board modules are merged into db.                    *)
(***************************************************************************)
\* line 181 and line 190: 1000000.0, times 0.0254 for macrofab with --metric
scaling_factor(fmt, met) ==
    IF fmt = "macrofab" /\ met THEN RatMul(<<1000000, 1>>, <<254, 10000>>)
    ELSE <<1000000, 1>>

\* the offset with the sign of its second component lost
origin_offset_SameSign(fmt) ==
    IF fmt = "macrofab" THEN << <<39371, 10>>, <<39371, 10>> >>
    ELSE << <<0, 1>>, <<0, 1>> >>

\* line 182 and line 187: (0, 0), (3937.1, -3937.1) for macrofab
origin_offset(fmt) ==
    IF fmt = "macrofab" THEN << <<39371, 10>>, <<-39371, 10>> >>
    ELSE << <<0, 1>>, <<0, 1>> >>

\* both axes negated
coord_polarity_BothNegated == <<-1, -1>>

\* line 183
coord_polarity == <<1, -1>>

\* line 179: '{}:{}'.format(fpid.GetLibNickname(), fpid.GetFootprintName())
FootprintId(m) == m.lib \o ":" \o m.name

\* lines 157 and 188: a 1-tuple holding the angle, int(rot[0]) for macrofab
Rotation(m, fmt) ==
    IF fmt = "macrofab" THEN PyInt(Trunc(Rat(m.orientation, 10)))
    ELSE PyTuple1(Rat(m.orientation, 10))

\* lines 173-176
Side(m, fmt) ==
    IF fmt = "macrofab" THEN PyInt(IF m.flipped THEN 2 ELSE 1)
    ELSE PyStr(IF m.flipped THEN "bottom" ELSE "top")

\* lines 166-171: x_size is the larger side of the footprint rectangle
XSizeRaw(m) == IF m.rect.height < m.rect.width THEN m.rect.width ELSE m.rect.height
YSizeRaw(m) == IF m.rect.height < m.rect.width THEN m.rect.height ELSE m.rect.width

\* the dict data of lines 192-203
ModuleData(m, fmt, met) ==
    [Reference |-> PyStr(m.ref),
     PosX |-> PyFloat(RatSub(RatDiv(<<coord_polarity[1] * m.center[1], 1>>,
                                    scaling_factor(fmt, met)),
                             origin_offset(fmt)[1])),
     PosY |-> PyFloat(RatSub(RatDiv(<<coord_polarity[2] * m.center[2], 1>>,
                                    scaling_factor(fmt, met)),
                             origin_offset(fmt)[2])),
     Rotation |-> Rotation(m, fmt),
     Side |-> Side(m, fmt),
     Type |-> PyInt(1),
     XSize |-> PyFloat(RatDiv(<<XSizeRaw(m), 1>>, scaling_factor(fmt, met))),
     YSize |-> PyFloat(RatDiv(<<YSizeRaw(m), 1>>, scaling_factor(fmt, met))),
     Populate |-> PyInt(1),
     Footprint |-> PyStr(FootprintId(m))]

\* the filter of line 153 left out
AttrSkipped_Never(m) == FALSE

\* line 153: modules not marked NORMAL+INSERT are not read
AttrSkipped(m) == m.attr # MOD_CMS

\* lines 211-212: the keys a warning is printed for
Conflicts(rec, data) == { k \in DOMAIN data : k \in DOMAIN rec /\ data[k] # rec[k] }

\* a merge that keeps the value a key already has
Overwrite_FirstWins(rec, data) ==
    [k \in DOMAIN rec \cup DOMAIN data |-> IF k \in DOMAIN rec THEN rec[k] ELSE data[k]]

\* line 213, for every key of data
Overwrite(rec, data) ==
    [k \in DOMAIN rec \cup DOMAIN data |-> IF k \in DOMAIN data THEN data[k] ELSE rec[k]]

Warn(at, msg, ref, key, old, new) ==
    [at |-> at, msg |-> msg, ref |-> ref, key |-> key, old |-> old, new |-> new]

\* lines 153-154
ModuleNotCMS ==
    /\ pc = "merge"
    /\ mi <= Len(modules)
    /\ AttrSkipped(modules[mi])
    /\ mi' = mi + 1
    /\ UNCHANGED <<inputs, columns, pc, ci, wi, db, err, out>>

\* lines 206-208
ModuleNotInDb ==
    /\ pc = "merge"
    /\ mi <= Len(modules)
    /\ ~AttrSkipped(modules[mi])
    /\ modules[mi].ref \notin DOMAIN db
    /\ err' = err \cup {Warn(mi, "PCB Skipping", modules[mi].ref, "", PyStr(""), PyStr(""))}
    /\ mi' = mi + 1
    /\ UNCHANGED <<inputs, columns, pc, ci, wi, db, out>>

\* lines 210-213
ModuleMerge ==
    /\ pc = "merge"
    /\ mi <= Len(modules)
    /\ ~AttrSkipped(modules[mi])
    /\ modules[mi].ref \in DOMAIN db
    /\ LET data == ModuleData(modules[mi], output_format, metric)
           ref == modules[mi].ref
       IN  /\ err' = err \cup { Warn(mi, "PCB overriding", ref, k, db[ref][k], data[k]) :
                                  k \in Conflicts(db[ref], data) }
           /\ db' = DictSet(db, ref, Overwrite(db[ref], data))
    /\ mi' = mi + 1
    /\ UNCHANGED <<inputs, columns, pc, ci, wi, out>>

(***************************************************************************)
(* Lines 252-262: pruning.                                                 *)
(***************************************************************************)
\* re.match of "(" + ")|(".join(patterns) + ")": one of the patterns matches
ReMatchAny(patterns, s) == \E i \in 1..Len(patterns) : ReMatch(patterns[i], s)

ref_combined == prune.ref
footprint_combined == prune.footprint

\* the patterns looked for anywhere in the text (re.search for re.match)
Pruned_Search(key, value) ==
    \/ "Config" \in DOMAIN value /\ StrIn("DNF", StrOf(value["Config"]))
    \/ \E i \in 1..Len(key) : ReMatchAny(ref_combined, SubSeq(key, i, Len(key)))
    \/ "Footprint" \in DOMAIN value /\ ReMatchAny(footprint_combined, StrOf(value["Footprint"]))

\* lines 257-262: the item is deleted
Pruned(key, value) ==
    \/ "Config" \in DOMAIN value /\ StrIn("DNF", StrOf(value["Config"]))
    \/ ReMatchAny(ref_combined, key)
    \/ "Footprint" \in DOMAIN value /\ ReMatchAny(footprint_combined, StrOf(value["Footprint"]))

\* the loop of line 255, run once every module is processed
Prune ==
    /\ pc = "merge"
    /\ mi > Len(modules)
    /\ db' = [k \in { x \in DOMAIN db : ~Pruned(x, db[x]) } |-> db[k]]
    /\ pc' = "header"
    /\ UNCHANGED <<inputs, columns, ci, mi, wi, err, out>>

(***************************************************************************)
(* Lines 267-285: the output.                                              *)
(***************************************************************************)
\* lines 268-273
columns_out == IF output_format = "macrofab" THEN mcfab_columns ELSE pcbng_columns

ColumnSet == { columns_out[i] : i \in 1..Len(columns_out) }

\* the row csv.DictWriter(extrasaction='ignore') writes for a dict: the
\* fieldnames only, the empty string for a missing key
Row(value) == [c \in ColumnSet |-> IF c \in DOMAIN value THEN value[c] ELSE PyStr("")]

\* out.writeheader() writes the row that maps every fieldname to itself
HeaderRow == [c \in ColumnSet |-> PyStr(c)]

\* line 276
WriteHeader ==
    /\ pc = "header"
    /\ out' = Append(out, HeaderRow)
    /\ pc' = "write"
    /\ UNCHANGED <<inputs, columns, ci, mi, wi, db, err>>

\* the items in decreasing key order
SortedKeys_Reversed(d) ==
    LET asc == SortedSeq(DOMAIN d)
    IN  [i \in 1..Len(asc) |-> asc[Len(asc) + 1 - i]]

\* sorted(db.items()): the keys are unique, so the items are in key order
SortedKeys(d) == SortedSeq(DOMAIN d)

\* lines 280-284 raise KeyError for this dict
RaisesKeyError(value) ==
    IF "DISTPN2" \notin DOMAIN value THEN TRUE
    ELSE /\ value["DISTPN2"] = PyStr("")
         /\ "DISTPN" \notin DOMAIN value
         /\ "MPN" \notin DOMAIN value

\* no fallback: the dict is written as it is
WithFallback_None(value) == value

\* lines 280-284: the dict after the fallback
WithFallback(value) ==
    IF value["DISTPN2"] = PyStr("")
    THEN IF "DISTPN" \in DOMAIN value
         THEN DictSet(value, "DISTPN2", value["DISTPN"])
         ELSE DictSet(value, "DISTPN2", value["MPN"])
    ELSE value

\* one iteration of the loop of line 278
WriteRow ==
    /\ pc = "write"
    /\ wi <= Cardinality(DOMAIN db)
    /\ LET key == SortedKeys(db)[wi]
           value == WithFallback(db[key])
       IN  /\ ~RaisesKeyError(db[key])
           /\ db' = DictSet(db, key, value)
           /\ out' = Append(out, Row(value))
    /\ wi' = wi + 1
    /\ UNCHANGED <<inputs, columns, pc, ci, mi, err>>

\* the KeyError of line 280 or line 284 ends the script with a traceback
WriteRowKeyError ==
    /\ pc = "write"
    /\ wi <= Cardinality(DOMAIN db)
    /\ RaisesKeyError(db[SortedKeys(db)[wi]])
    /\ pc' = "aborted"
    /\ UNCHANGED <<inputs, columns, ci, mi, wi, db, err, out>>

\* the loop of line 278 is over: the script ends
Finish ==
    /\ pc = "write"
    /\ wi > Cardinality(DOMAIN db)
    /\ pc' = "done"
    /\ UNCHANGED <<inputs, columns, ci, mi, wi, db, err, out>>

Next ==
    \/ GatherColumns
    \/ SeedComponent
    \/ LoadBoard
    \/ ModuleNotCMS
    \/ ModuleNotInDb
    \/ ModuleMerge
    \/ Prune
    \/ WriteHeader
    \/ WriteRow
    \/ WriteRowKeyError
    \/ Finish

Spec == Init /\ [][Next]_vars

(***************************************************************************)
(* Notions the properties are stated with.                                 *)
(***************************************************************************)
\* the component of the netlist with this reference
Comp(ref) == CHOOSE c \in { components[i] : i \in 1..Len(components) } : c.ref = ref

\* the index of the last MOD_CMS module with this reference among the
\* modules processed so far, 0 when there is none
LastCms(ref) ==
    LET S == { i \in 1..(mi - 1) : modules[i].ref = ref /\ modules[i].attr = MOD_CMS }
    IN  IF S = {} THEN 0 ELSE CHOOSE i \in S : \A j \in S : j <= i

\* the board holds modules with this reference, none of them MOD_CMS
OnlyNonCms(ref) ==
    /\ \E i \in 1..Len(modules) : modules[i].ref = ref
    /\ \A i \in 1..Len(modules) : modules[i].ref = ref => modules[i].attr # MOD_CMS

\* the references of the data rows written so far
RowRef(i) == out[i]["Reference"].s

ModuleKeys == {"Reference", "PosX", "PosY", "Rotation", "Side", "Type", "XSize", "YSize",
               "Populate", "Footprint"}

StartsWith(s, p) == Len(s) >= Len(p) /\ SubSeq(s, 1, Len(p)) = p

\* s holds sub with no newline before it
HoldsOnFirstLine(sub, s) ==
    \E i \in 1..Len(s) :
        /\ i + Len(sub) - 1 <= Len(s)
        /\ SubSeq(s, i, i + Len(sub) - 1) = sub
        /\ \A j \in 1..(i - 1) : CharAt(s, j) # Newline

RatOf(v) == <<v.n, v.d>>

(***************************************************************************)
(* C1                                                                      *)
(***************************************************************************)
\* C1 as stated: the Footprint of every record of db is the footprint of its
\* component, c.getFootprint(), whatever the board modules say.
C1_FootprintAlwaysFromComponent ==
    \A ref \in DOMAIN db : db[ref]["Footprint"] = PyStr(Comp(ref).footprint)

\* C1 amended: the Footprint of a record is the footprint of its component,
\* c.getFootprint(), as long as no MOD_CMS module with the reference has been
\* merged, and the "<library-nickname>:<footprint-name>" of the last MOD_CMS
\* module with the reference once one has been merged.
C1_FootprintOverride ==
    \A ref \in DOMAIN db :
        db[ref]["Footprint"] =
            IF LastCms(ref) = 0 THEN PyStr(Comp(ref).footprint)
            ELSE PyStr(FootprintId(modules[LastCms(ref)]))

\* after the merge one record holds its component's footprint although the
\* Footprint field gathered at line 123 differs, and another holds a module's
\* footprint that differs from its component's
C1_Witness ==
    /\ pc = "header"
    /\ \E ref \in DOMAIN db :
        /\ LastCms(ref) = 0
        /\ "Footprint" \in ExtraFields
        /\ getField(Comp(ref), "Footprint") # Comp(ref).footprint
        /\ db[ref]["Footprint"] = PyStr(Comp(ref).footprint)
    /\ \E ref \in DOMAIN db :
        /\ LastCms(ref) # 0
        /\ db[ref]["Footprint"] # PyStr(Comp(ref).footprint)

C3_Case(ref) ==
    /\ LastCms(ref) # 0
    /\ modules[LastCms(ref)].center = <<10000000, 20000000>>
    /\ output_format # "macrofab"
    /\ ~metric

\* C3 as stated: the record then has PosX = -10.0 and PosY = -20.0.
C3_GenericPositionAsStated ==
    \A ref \in DOMAIN db :
        C3_Case(ref) => /\ db[ref]["PosX"] = PyFloat(<<-10, 1>>)
                        /\ db[ref]["PosY"] = PyFloat(<<-20, 1>>)

\* C3 amended: the record then has PosX = 10.0 and PosY = -20.0.
C3_GenericPosition ==
    \A ref \in DOMAIN db :
        C3_Case(ref) => /\ db[ref]["PosX"] = PyFloat(<<10, 1>>)
                        /\ db[ref]["PosY"] = PyFloat(<<-20, 1>>)

C3_Witness ==
    \E ref \in DOMAIN db : C3_Case(ref) /\ db[ref]["PosX"] = PyFloat(<<10, 1>>)

(***************************************************************************)
(* C4                                                                      *)
(***************************************************************************)
\* the step writes a data row
RowWritten == pc = "write" /\ Len(out') = Len(out) + 1

\* the reference of the row the step writes
NewRowRef == out'[Len(out')]["Reference"].s

\* in the macrofab layout the DISTPN2 column of the new row is the DISTPN2
\* of the dict handed to the writer
NewRowShowsDistpn2 ==
    output_format = "macrofab" => out'[Len(out')]["DISTPN2"] = db'[NewRowRef]["DISTPN2"]

\* C4 as stated: when a row is written for a record whose DISTPN2 is empty,
\* the written DISTPN2 is the MPN if the record has no DISTPN or an empty one,
\* and the DISTPN if the record has a non-empty DISTPN.
C4_FallbackAsStated ==
    [][RowWritten =>
        LET pre == db[NewRowRef]
            post == db'[NewRowRef]
        IN  pre["DISTPN2"] = PyStr("") =>
              /\ NewRowShowsDistpn2
              /\ (("DISTPN" \notin DOMAIN pre \/ pre["DISTPN"] = PyStr(""))
                    /\ "MPN" \in DOMAIN pre)
                  => post["DISTPN2"] = pre["MPN"]
              /\ ("DISTPN" \in DOMAIN pre /\ pre["DISTPN"] # PyStr(""))
                  => post["DISTPN2"] = pre["DISTPN"]]_vars

\* C4 amended: when a row is written for a record whose DISTPN2 is empty, the
\* written DISTPN2 is the record's DISTPN if the record has the key DISTPN,
\* empty or not, and the record's MPN if it has no key DISTPN.
C4_Fallback ==
    [][RowWritten =>
        LET pre == db[NewRowRef]
            post == db'[NewRowRef]
        IN  pre["DISTPN2"] = PyStr("") =>
              /\ NewRowShowsDistpn2
              /\ "DISTPN" \in DOMAIN pre => post["DISTPN2"] = pre["DISTPN"]
              /\ "DISTPN" \notin DOMAIN pre => post["DISTPN2"] = pre["MPN"]]_vars

\* a row of the macrofab layout shows DISTPN2 = "ABC123", the MPN of a
\* component that has neither a DISTPN2 nor a DISTPN
C4_Witness ==
    \E i \in 2..Len(out) :
        /\ output_format = "macrofab"
        /\ getField(Comp(RowRef(i)), "DISTPN2") = ""
        /\ "DISTPN2" \in ExtraFields
        /\ "DISTPN" \notin DOMAIN db[RowRef(i)]
        /\ getField(Comp(RowRef(i)), "MPN") = "ABC123"
        /\ out[i]["DISTPN2"] = PyStr("ABC123")

(***************************************************************************)
(* C5                                                                      *)
(***************************************************************************)
\* the three rules of the claim, on the merged record of key k
C5_RuleConfig(k) == StrIn("DNF", db[k]["Config"].s)
C5_RuleRef(k) == StartsWith(k, "TP") \/ StartsWith(k, "MECH")
C5_RuleFootprint(k) == HoldsOnFirstLine("NetTie", db[k]["Footprint"].s)

\* C5: the prune step keeps exactly the records that none of the rules (a)
\* Config holds "DNF", (b) the reference starts with "TP" or "MECH", (c) the
\* Footprint holds "NetTie" applies to, and keeps them as they are; "TP3" is
\* always removed, and "U1" is removed only by rule (a) or rule (c).
C5_PruneExact ==
    [][(pc = "merge" /\ pc' = "header") =>
        /\ DOMAIN db' = { k \in DOMAIN db :
                            ~(C5_RuleConfig(k) \/ C5_RuleRef(k) \/ C5_RuleFootprint(k)) }
        /\ \A k \in DOMAIN db' : db'[k] = db[k]
        /\ "TP3" \notin DOMAIN db'
        /\ "U1" \in DOMAIN db =>
            ("U1" \in DOMAIN db' <=> ~(C5_RuleConfig("U1") \/ C5_RuleFootprint("U1")))]_vars

\* the prune step has removed "TP3" and kept "XTP2", whose reference holds
\* "TP" but does not start with it
C5_Witness ==
    /\ pc = "header"
    /\ \E i \in 1..Len(components) : components[i].ref = "TP3"
    /\ "TP3" \notin DOMAIN db
    /\ "XTP2" \in DOMAIN db

(***************************************************************************)
(* C6                                                                      *)
(***************************************************************************)
\* C6: no step after the loading aborts the run, and the run ends with the
\* header and one row for every record that survived pruning.
C6_NoStepFatal ==
    /\ pc # "aborted"
    /\ pc = "done" => Len(out) = 1 + Cardinality(DOMAIN db)

(***************************************************************************)
(* C7                                                                      *)
(***************************************************************************)
\* C7: in the macrofab format without --metric, the PosX and PosY of a merged
\* record are those of the generic format minus 3937.1 and minus -3937.1.
C7_MacrofabOffset ==
    \A ref \in DOMAIN db :
        (LastCms(ref) # 0 /\ output_format = "macrofab" /\ ~metric) =>
            LET generic == ModuleData(modules[LastCms(ref)], "pcbng", FALSE)
            IN  /\ db[ref]["PosX"] = PyFloat(RatSub(RatOf(generic["PosX"]), <<39371, 10>>))
                /\ db[ref]["PosY"] = PyFloat(RatSub(RatOf(generic["PosY"]), <<-39371, 10>>))

\* the module at (10_000_000, 20_000_000) is merged in the macrofab format:
\* PosX = 10.0 - 3937.1 and PosY = -20.0 + 3937.1
C7_Witness ==
    /\ output_format = "macrofab"
    /\ ~metric
    /\ \E ref \in DOMAIN db :
        /\ LastCms(ref) # 0
        /\ modules[LastCms(ref)].center = <<10000000, 20000000>>
        /\ db[ref]["PosX"] = PyFloat(<<-39271, 10>>)
        /\ db[ref]["PosY"] = PyFloat(<<39171, 10>>)

(***************************************************************************)
(* C8                                                                      *)
(***************************************************************************)
\* C8: the header row is the first row written, and the data rows after it
\* are in strictly increasing order of their references.
C8_SortedRows ==
    /\ Len(out) >= 1 => out[1] = HeaderRow
    /\ \A i, j \in 2..Len(out) : i < j => StrLess(RowRef(i), RowRef(j))
    /\ \A i \in 2..Len(out) : out[i] # HeaderRow

\* two data rows are written for a netlist whose components arrive in
\* decreasing order of reference
C8_Witness ==
    /\ Len(out) >= 3
    /\ Len(components) >= 2
    /\ StrLess(components[2].ref, components[1].ref)

(***************************************************************************)
(* C9                                                                      *)
(***************************************************************************)
\* the step processes a MOD_CMS module whose reference is in db
MergeStep ==
    /\ pc = "merge"
    /\ mi <= Len(modules)
    /\ mi' = mi + 1
    /\ modules[mi].attr = MOD_CMS
    /\ modules[mi].ref \in DOMAIN db

\* C9: when a MOD_CMS module with a reference of db is processed, the record
\* holds the module's value for each of the ten module fields afterwards, and
\* a "PCB overriding" warning is printed for a field exactly when the record
\* had the field with another value; once all modules are processed, each of
\* the fields holds the value of the last MOD_CMS module with the reference.
C9_LastWriteWins ==
    [][/\ MergeStep =>
            LET ref == modules[mi].ref
                data == ModuleData(modules[mi], output_format, metric)
            IN  \A k \in ModuleKeys :
                    /\ db'[ref][k] = data[k]
                    /\ (\E w \in err' \ err :
                            w.msg = "PCB overriding" /\ w.ref = ref /\ w.key = k)
                        <=> (k \in DOMAIN db[ref] /\ db[ref][k] # data[k])
       /\ (pc' = "merge" /\ mi' > Len(modules)) =>
            \A ref \in DOMAIN db' :
                LET S == { i \in 1..Len(modules) :
                             modules[i].ref = ref /\ modules[i].attr = MOD_CMS }
                IN  S # {} =>
                      LET last == CHOOSE i \in S : \A j \in S : j <= i
                      IN  \A k \in ModuleKeys :
                            db'[ref][k] = ModuleData(modules[last], output_format, metric)[k]
      ]_vars

\* two MOD_CMS modules with one reference were merged: the second one printed
\* a warning for PosX, and the record holds the second one's PosX
C9_Witness ==
    /\ pc = "merge"
    /\ mi = 3
    /\ modules[1].ref = modules[2].ref
    /\ modules[1].attr = MOD_CMS
    /\ modules[2].attr = MOD_CMS
    /\ modules[1].center # modules[2].center
    /\ modules[1].ref \in DOMAIN db
    /\ \E w \in err : w.at = 2 /\ w.msg = "PCB overriding" /\ w.key = "PosX"
    /\ db[modules[2].ref]["PosX"] = ModuleData(modules[2], output_format, metric)["PosX"]
    /\ db[modules[2].ref]["PosX"] # ModuleData(modules[1], output_format, metric)["PosX"]

(***************************************************************************)
(* C10                                                                     *)
(***************************************************************************)
\* C10: every seeded record has every name of columnset as a key, and holds
\* the component's field of that name for it (Footprint and Datasheet, which
\* lines 117 and 128 set from getDatasheet() and getFootprint(), left aside).
C10_SeedCapturesEveryColumn ==
    pc = "seed" =>
        \A ref \in DOMAIN db :
            \A f \in columnset :
                /\ f \in DOMAIN db[ref]
                /\ f \notin {"Footprint", "Datasheet"}
                    => db[ref][f] = PyStr(getField(Comp(ref), f))

====
